---- MODULE Spec2Model ----
(***************************************************************************)
(* Model of src/nyc.py: the Citi Bike archive combiner.                    *)
(*                                                                         *)
(* Text (column headers, archive entry names, cell text) is a sequence of  *)
(* one-character strings, so that str.strip, str.split, str.join,          *)
(* str.lower, str.endswith and sorted() are computed character by          *)
(* character as Python computes them.                                      *)
(*                                                                         *)
(* A DataFrame is [n |-> number of rows, cols |-> sequence of columns],    *)
(* a column is [name |-> text, vals |-> sequence of n cells], and a cell   *)
(* is [k |-> kind, v |-> text]; the kinds are                              *)
(*   "str" text, "int" integer, "num" number produced by pd.to_numeric,    *)
(*   "ts" timestamp parsed from text, "ts_ns" timestamp read from an       *)
(*   integer count of nanoseconds, "na" pd.NA / NaN, "nat" NaT,            *)
(*   "nan" the NaN pd.to_numeric gives for an unparseable value.           *)
(***************************************************************************)
EXTENDS Integers, Sequences, FiniteSets, TLC

VARIABLES
    \* ---- combine_zip_to_csv ----
    namelist,      \* z.namelist(): the archive's entry names, in archive order
    chunksize,     \* the chunksize argument
    out0,          \* the file at out_csv before the run
    out,           \* the file at out_csv
    pc,            \* position in combine_zip_to_csv
    exc,           \* the exception that ended the run, "" if none
    first_write,   \* the first_write flag
    members,       \* the sorted list of qualifying entry names
    numfiles,      \* the numfiles counter
    mi,            \* how many entries of members the for loop has taken
    opened,        \* names given to z.open, in order
    f,             \* the open member: its parsed content and where it stops decoding as UTF-8
    rd,            \* the chunk generator: encoding of the attempt, rows read, chunks yielded
    writes,        \* the to_csv calls made so far: mode, header, member, rows
    \* ---- normalize_columns called on its own ----
    batch,         \* the input DataFrame
    res1,          \* normalize_columns(batch)
    res2,          \* normalize_columns(normalize_columns(batch))
    npc            \* "input", "normalized", "renormalized" ("off" under Spec)

cvars == <<namelist, chunksize, out0, out, pc, exc, first_write, members,
           numfiles, mi, opened, f, rd, writes>>
nvars == <<batch, res1, res2, npc>>
vars  == <<namelist, chunksize, out0, out, pc, exc, first_write, members,
           numfiles, mi, opened, f, rd, writes, batch, res1, res2, npc>>

----------------------------------------------------------------------------
(* Bounds of the model *)

\* longest archive listing
MaxEntries == 3
\* largest chunksize argument
MaxChunk == 2
\* most columns of a batch handed to normalize_columns on its own
MaxCols == 2

----------------------------------------------------------------------------
(* Text *)

\* the characters of the model in code point order
Chars ==
    <<" ", "-", ".", "/", "0", "1", "2", "3", "4", "5", "6", "7", "8", "9", ":",
      "A", "B", "C", "D", "E", "F", "G", "H", "I", "J", "K", "L", "M",
      "N", "O", "P", "Q", "R", "S", "T", "U", "V", "W", "X", "Y", "Z", "_",
      "a", "b", "c", "d", "e", "f", "g", "h", "i", "j", "k", "l", "m",
      "n", "o", "p", "q", "r", "s", "t", "u", "v", "w", "x", "y", "z">>

Ord(c) == CHOOSE i \in 1..Len(Chars) : Chars[i] = c

UpperCase == <<"A", "B", "C", "D", "E", "F", "G", "H", "I", "J", "K", "L", "M", "N", "O", "P", "Q", "R", "S", "T", "U", "V", "W", "X", "Y", "Z">>
LowerCase == <<"a", "b", "c", "d", "e", "f", "g", "h", "i", "j", "k", "l", "m", "n", "o", "p", "q", "r", "s", "t", "u", "v", "w", "x", "y", "z">>

lower_char(c) ==
    IF \E i \in 1..Len(UpperCase) : UpperCase[i] = c
    THEN LowerCase[CHOOSE i \in 1..Len(UpperCase) : UpperCase[i] = c]
    ELSE c

\* str.lower()
lower(s) == [i \in 1..Len(s) |-> lower_char(s[i])]

IsSpace_or_underscore(c) == c = " " \/ c = "_"

IsSpace(c) == c = " "

RECURSIVE lstrip(_)
lstrip(s) == IF s # <<>> /\ IsSpace(Head(s)) THEN lstrip(Tail(s)) ELSE s

RECURSIVE rstrip(_)
rstrip(s) ==
    IF s # <<>> /\ IsSpace(s[Len(s)]) THEN rstrip(SubSeq(s, 1, Len(s) - 1)) ELSE s

\* str.strip()
strip(s) == rstrip(lstrip(s))

\* str.split(): the maximal runs of non-whitespace characters
RECURSIVE split(_)
split(s) ==
    LET t == lstrip(s)
    IN  IF t = <<>> THEN <<>>
        ELSE LET stops == {i \in 1..Len(t) : IsSpace(t[i])}
                 k == IF stops = {} THEN Len(t) + 1
                      ELSE CHOOSE i \in stops : \A j \in stops : i <= j
             IN  <<SubSeq(t, 1, k - 1)>> \o split(SubSeq(t, k, Len(t)))

\* sep.join(words)
RECURSIVE join(_, _)
join(sep, ws) ==
    IF ws = <<>> THEN <<>>
    ELSE IF Len(ws) = 1 THEN ws[1]
    ELSE ws[1] \o sep \o join(sep, Tail(ws))

\* str.endswith(suffix)
endswith(s, suf) ==
    /\ Len(s) >= Len(suf)
    /\ SubSeq(s, Len(s) - Len(suf) + 1, Len(s)) = suf

\* a < b for Python str: by code point, a proper prefix first
RECURSIVE StrLess(_, _)
StrLess(a, b) ==
    IF b = <<>> THEN FALSE
    ELSE IF a = <<>> THEN TRUE
    ELSE IF Head(a) = Head(b) THEN StrLess(Tail(a), Tail(b))
    ELSE Ord(Head(a)) < Ord(Head(b))

\* insertion of x into a sorted list
RECURSIVE Insert(_, _)
Insert(x, xs) ==
    IF xs = <<>> THEN <<x>>
    ELSE IF StrLess(Head(xs), x) \/ Head(xs) = x THEN <<Head(xs)>> \o Insert(x, Tail(xs))
    ELSE <<x>> \o xs

\* sorted(xs)
RECURSIVE sorted(_)
sorted(xs) == IF xs = <<>> THEN <<>> ELSE Insert(Head(xs), sorted(Tail(xs)))

\* the concatenation of the sequences in xss
RECURSIVE Concat(_)
Concat(xss) == IF xss = <<>> THEN <<>> ELSE Head(xss) \o Concat(Tail(xss))

Range(xs) == {xs[i] : i \in 1..Len(xs)}

----------------------------------------------------------------------------
(* The canonical schema and the header alias table *)

CANON_ORDER == <<
    <<"s", "t", "a", "r", "t", "e", "d", "_", "a", "t">>, <<"e", "n", "d", "e", "d", "_", "a", "t">>, <<"t", "r", "i", "p", "_", "d", "u", "r", "a", "t", "i", "o", "n", "_", "s", "e", "c">>,
    <<"s", "t", "a", "r", "t", "_", "s", "t", "a", "t", "i", "o", "n", "_", "i", "d">>, <<"s", "t", "a", "r", "t", "_", "s", "t", "a", "t", "i", "o", "n", "_", "n", "a", "m", "e">>, <<"s", "t", "a", "r", "t", "_", "l", "a", "t">>, <<"s", "t", "a", "r", "t", "_", "l", "n", "g">>,
    <<"e", "n", "d", "_", "s", "t", "a", "t", "i", "o", "n", "_", "i", "d">>, <<"e", "n", "d", "_", "s", "t", "a", "t", "i", "o", "n", "_", "n", "a", "m", "e">>, <<"e", "n", "d", "_", "l", "a", "t">>, <<"e", "n", "d", "_", "l", "n", "g">>,
    <<"b", "i", "k", "e", "_", "i", "d">>, <<"u", "s", "e", "r", "_", "t", "y", "p", "e">>, <<"b", "i", "r", "t", "h", "_", "y", "e", "a", "r">>, <<"g", "e", "n", "d", "e", "r">>,
    <<"s", "o", "u", "r", "c", "e", "_", "f", "i", "l", "e">> >>

RENAME_MAP ==
    (<<"s", "t", "a", "r", "t", "t", "i", "m", "e">> :> <<"s", "t", "a", "r", "t", "e", "d", "_", "a", "t">>) @@
    (<<"s", "t", "a", "r", "t", " ", "t", "i", "m", "e">> :> <<"s", "t", "a", "r", "t", "e", "d", "_", "a", "t">>) @@
    (<<"s", "t", "a", "r", "t", "e", "d", "_", "a", "t">> :> <<"s", "t", "a", "r", "t", "e", "d", "_", "a", "t">>) @@
    (<<"s", "t", "o", "p", "t", "i", "m", "e">> :> <<"e", "n", "d", "e", "d", "_", "a", "t">>) @@
    (<<"s", "t", "o", "p", " ", "t", "i", "m", "e">> :> <<"e", "n", "d", "e", "d", "_", "a", "t">>) @@
    (<<"e", "n", "d", "e", "d", "_", "a", "t">> :> <<"e", "n", "d", "e", "d", "_", "a", "t">>) @@
    (<<"t", "r", "i", "p", "d", "u", "r", "a", "t", "i", "o", "n">> :> <<"t", "r", "i", "p", "_", "d", "u", "r", "a", "t", "i", "o", "n", "_", "s", "e", "c">>) @@
    (<<"t", "r", "i", "p", " ", "d", "u", "r", "a", "t", "i", "o", "n">> :> <<"t", "r", "i", "p", "_", "d", "u", "r", "a", "t", "i", "o", "n", "_", "s", "e", "c">>) @@
    (<<"d", "u", "r", "a", "t", "i", "o", "n">> :> <<"t", "r", "i", "p", "_", "d", "u", "r", "a", "t", "i", "o", "n", "_", "s", "e", "c">>) @@
    (<<"s", "t", "a", "r", "t", " ", "s", "t", "a", "t", "i", "o", "n", " ", "i", "d">> :> <<"s", "t", "a", "r", "t", "_", "s", "t", "a", "t", "i", "o", "n", "_", "i", "d">>) @@
    (<<"s", "t", "a", "r", "t", "_", "s", "t", "a", "t", "i", "o", "n", "_", "i", "d">> :> <<"s", "t", "a", "r", "t", "_", "s", "t", "a", "t", "i", "o", "n", "_", "i", "d">>) @@
    (<<"s", "t", "a", "r", "t", " ", "s", "t", "a", "t", "i", "o", "n", " ", "n", "a", "m", "e">> :> <<"s", "t", "a", "r", "t", "_", "s", "t", "a", "t", "i", "o", "n", "_", "n", "a", "m", "e">>) @@
    (<<"s", "t", "a", "r", "t", "_", "s", "t", "a", "t", "i", "o", "n", "_", "n", "a", "m", "e">> :> <<"s", "t", "a", "r", "t", "_", "s", "t", "a", "t", "i", "o", "n", "_", "n", "a", "m", "e">>) @@
    (<<"e", "n", "d", " ", "s", "t", "a", "t", "i", "o", "n", " ", "i", "d">> :> <<"e", "n", "d", "_", "s", "t", "a", "t", "i", "o", "n", "_", "i", "d">>) @@
    (<<"e", "n", "d", "_", "s", "t", "a", "t", "i", "o", "n", "_", "i", "d">> :> <<"e", "n", "d", "_", "s", "t", "a", "t", "i", "o", "n", "_", "i", "d">>) @@
    (<<"e", "n", "d", " ", "s", "t", "a", "t", "i", "o", "n", " ", "n", "a", "m", "e">> :> <<"e", "n", "d", "_", "s", "t", "a", "t", "i", "o", "n", "_", "n", "a", "m", "e">>) @@
    (<<"e", "n", "d", "_", "s", "t", "a", "t", "i", "o", "n", "_", "n", "a", "m", "e">> :> <<"e", "n", "d", "_", "s", "t", "a", "t", "i", "o", "n", "_", "n", "a", "m", "e">>) @@
    (<<"s", "t", "a", "r", "t", " ", "s", "t", "a", "t", "i", "o", "n", " ", "l", "a", "t", "i", "t", "u", "d", "e">> :> <<"s", "t", "a", "r", "t", "_", "l", "a", "t">>) @@
    (<<"s", "t", "a", "r", "t", "_", "l", "a", "t">> :> <<"s", "t", "a", "r", "t", "_", "l", "a", "t">>) @@
    (<<"s", "t", "a", "r", "t", " ", "s", "t", "a", "t", "i", "o", "n", " ", "l", "o", "n", "g", "i", "t", "u", "d", "e">> :> <<"s", "t", "a", "r", "t", "_", "l", "n", "g">>) @@
    (<<"s", "t", "a", "r", "t", "_", "l", "n", "g">> :> <<"s", "t", "a", "r", "t", "_", "l", "n", "g">>) @@
    (<<"e", "n", "d", " ", "s", "t", "a", "t", "i", "o", "n", " ", "l", "a", "t", "i", "t", "u", "d", "e">> :> <<"e", "n", "d", "_", "l", "a", "t">>) @@
    (<<"e", "n", "d", "_", "l", "a", "t">> :> <<"e", "n", "d", "_", "l", "a", "t">>) @@
    (<<"e", "n", "d", " ", "s", "t", "a", "t", "i", "o", "n", " ", "l", "o", "n", "g", "i", "t", "u", "d", "e">> :> <<"e", "n", "d", "_", "l", "n", "g">>) @@
    (<<"e", "n", "d", "_", "l", "n", "g">> :> <<"e", "n", "d", "_", "l", "n", "g">>) @@
    (<<"b", "i", "k", "e", "i", "d">> :> <<"b", "i", "k", "e", "_", "i", "d">>) @@
    (<<"b", "i", "k", "e", " ", "i", "d">> :> <<"b", "i", "k", "e", "_", "i", "d">>) @@
    (<<"b", "i", "k", "e", "_", "i", "d">> :> <<"b", "i", "k", "e", "_", "i", "d">>) @@
    (<<"u", "s", "e", "r", "t", "y", "p", "e">> :> <<"u", "s", "e", "r", "_", "t", "y", "p", "e">>) @@
    (<<"u", "s", "e", "r", " ", "t", "y", "p", "e">> :> <<"u", "s", "e", "r", "_", "t", "y", "p", "e">>) @@
    (<<"m", "e", "m", "b", "e", "r", "_", "c", "a", "s", "u", "a", "l">> :> <<"u", "s", "e", "r", "_", "t", "y", "p", "e">>) @@
    (<<"b", "i", "r", "t", "h", " ", "y", "e", "a", "r">> :> <<"b", "i", "r", "t", "h", "_", "y", "e", "a", "r">>) @@
    (<<"b", "i", "r", "t", "h", "_", "y", "e", "a", "r">> :> <<"b", "i", "r", "t", "h", "_", "y", "e", "a", "r">>) @@
    (<<"g", "e", "n", "d", "e", "r">> :> <<"g", "e", "n", "d", "e", "r">>)

----------------------------------------------------------------------------
(* Cells and their coercions *)

NA  == [k |-> "na",  v |-> <<>>]
NaT == [k |-> "nat", v |-> <<>>]
NaN == [k |-> "nan", v |-> <<>>]

StrCell(s) == [k |-> "str", v |-> s]
IntCell(s) == [k |-> "int", v |-> s]

\* the texts pd.to_datetime parses
DateTexts == {<<"2", "0", "1", "4", "-", "0", "1", "-", "0", "2">>}
\* the texts pd.to_numeric parses
NumberTexts == {<<"5">>, <<"7">>}

\* pd.to_datetime(x, errors="coerce") on one cell
to_datetime(c) ==
    CASE c.k = "str" -> IF c.v \in DateTexts THEN [k |-> "ts", v |-> c.v] ELSE NaT
      [] c.k = "int" -> [k |-> "ts_ns", v |-> c.v]
      [] c.k = "num" -> [k |-> "ts_ns", v |-> c.v]
      [] c.k \in {"ts", "ts_ns"} -> c
      [] OTHER -> NaT

\* pd.to_numeric(x, errors="coerce") on one cell
to_numeric(c) ==
    CASE c.k = "str" -> IF c.v \in NumberTexts THEN [k |-> "num", v |-> c.v] ELSE NaN
      [] c.k = "int" -> [k |-> "num", v |-> c.v]
      [] c.k = "num" -> c
      [] c.k \in {"ts", "ts_ns"} -> [k |-> "num", v |-> c.v]
      [] OTHER -> NaN

\* astype("string") on one cell
astype_string(c) ==
    CASE c.k \in {"na", "nat", "nan"} -> NA
      [] OTHER -> [k |-> "str", v |-> c.v]

----------------------------------------------------------------------------
(* normalize_columns *)

EmptyFrame == [n |-> 0, cols |-> <<>>]

Returned(df) == [exc |-> "", df |-> df]
Raised(e)    == [exc |-> e, df |-> EmptyFrame]

columns(df) == [i \in 1..Len(df.cols) |-> df.cols[i].name]

\* line 88: the cleaned spelling of one header
cleaned(c) == lower(join(<<" ">>, split(strip(c))))

\* lines 88-89: df.rename(columns=cleaned)
rename_cleaned(df) ==
    [df EXCEPT !.cols =
        [i \in 1..Len(df.cols) |-> [df.cols[i] EXCEPT !.name = cleaned(@)]]]

\* line 92: the canonical name of a cleaned header, the header itself if unknown
Alias(c) == IF c \in DOMAIN RENAME_MAP THEN RENAME_MAP[c] ELSE c

\* line 92: df.rename(columns={k: v for k, v in RENAME_MAP.items() if k in df.columns})
rename_known(df) ==
    [df EXCEPT !.cols =
        [i \in 1..Len(df.cols) |-> [df.cols[i] EXCEPT !.name = Alias(@)]]]

\* lines 95-97: every canonical column missing from df is added, all pd.NA
RECURSIVE ensure_canonical(_, _)
ensure_canonical(df, names) ==
    IF names = <<>> THEN df
    ELSE LET col == Head(names)
             d == IF col \in Range(columns(df)) THEN df
                  ELSE [df EXCEPT !.cols =
                           Append(@, [name |-> col, vals |-> [r \in 1..df.n |-> NA]])]
         IN  ensure_canonical(d, Tail(names))

\* lines 100-101: df[c] = pd.to_datetime(df[c], errors="coerce")
datetime_column(df, c) ==
    [df EXCEPT !.cols =
        [i \in 1..Len(df.cols) |->
            IF df.cols[i].name = c
            THEN [df.cols[i] EXCEPT !.vals = [r \in 1..df.n |-> to_datetime(@[r])]]
            ELSE df.cols[i]]]

\* line 102: df[c] = pd.to_numeric(df[c], errors="coerce")
numeric_column(df, c) ==
    [df EXCEPT !.cols =
        [i \in 1..Len(df.cols) |->
            IF df.cols[i].name = c
            THEN [df.cols[i] EXCEPT !.vals = [r \in 1..df.n |-> to_numeric(@[r])]]
            ELSE df.cols[i]]]

\* line 106: df[c] = df[c].astype("string"), on every column labelled c
string_column(df, c) ==
    [df EXCEPT !.cols =
        [i \in 1..Len(df.cols) |->
            IF df.cols[i].name = c
            THEN [df.cols[i] EXCEPT !.vals = [r \in 1..df.n |-> astype_string(@[r])]]
            ELSE df.cols[i]]]

\* how many columns of df are labelled c: df[c] is a Series only when it is one
count(df, c) == Cardinality({i \in 1..Len(df.cols) : df.cols[i].name = c})

STRING_COLUMNS == <<
    <<"s", "t", "a", "r", "t", "_", "s", "t", "a", "t", "i", "o", "n", "_", "i", "d">>, <<"e", "n", "d", "_", "s", "t", "a", "t", "i", "o", "n", "_", "i", "d">>, <<"b", "i", "k", "e", "_", "i", "d">>,
    <<"b", "i", "r", "t", "h", "_", "y", "e", "a", "r">>, <<"g", "e", "n", "d", "e", "r">>, <<"u", "s", "e", "r", "_", "t", "y", "p", "e">> >>

\* lines 105-106
RECURSIVE as_strings(_, _)
as_strings(df, names) ==
    IF names = <<>> THEN df
    ELSE as_strings(string_column(df, Head(names)), Tail(names))

\* line 108: df[CANON_ORDER] takes, for each canonical name in turn, every
\* column carrying that label
RECURSIVE labelled(_, _)
labelled(cols, c) ==
    IF cols = <<>> THEN <<>>
    ELSE (IF Head(cols).name = c THEN <<Head(cols)>> ELSE <<>>) \o labelled(Tail(cols), c)

select(df, names) ==
    [df EXCEPT !.cols = Concat([j \in 1..Len(names) |-> labelled(df.cols, names[j])])]

normalize_columns(df) ==
    LET d1 == rename_cleaned(df)
        d2 == rename_known(d1)
        d3 == ensure_canonical(d2, CANON_ORDER)
    IN  \* pd.to_datetime of a frame with duplicate labels raises ValueError
        IF count(d3, <<"s", "t", "a", "r", "t", "e", "d", "_", "a", "t">>) > 1 \/ count(d3, <<"e", "n", "d", "e", "d", "_", "a", "t">>) > 1
        THEN Raised("ValueError")
        \* pd.to_numeric of a frame raises TypeError
        ELSE IF count(d3, <<"t", "r", "i", "p", "_", "d", "u", "r", "a", "t", "i", "o", "n", "_", "s", "e", "c">>) > 1
        THEN Raised("TypeError")
        ELSE LET d4 == datetime_column(d3, <<"s", "t", "a", "r", "t", "e", "d", "_", "a", "t">>)
                 d5 == datetime_column(d4, <<"e", "n", "d", "e", "d", "_", "a", "t">>)
                 d6 == numeric_column(d5, <<"t", "r", "i", "p", "_", "d", "u", "r", "a", "t", "i", "o", "n", "_", "s", "e", "c">>)
                 d7 == as_strings(d6, STRING_COLUMNS)
             IN  Returned(select(d7, CANON_ORDER))

----------------------------------------------------------------------------
(* normalize_columns called on a batch of its own *)

\* headers a batch may carry
HeaderPool == {
    <<"s", "t", "a", "r", "t", "t", "i", "m", "e">>, <<"s", "t", "a", "r", "t", "e", "d", "_", "a", "t">>, <<" ", "T", "r", "i", "p", " ", " ", "D", "u", "r", "a", "t", "i", "o", "n">>, <<"d", "u", "r", "a", "t", "i", "o", "n">>,
    <<"S", "t", "a", "r", "t", " ", " ", "S", "t", "a", "t", "i", "o", "n", " ", "N", "a", "m", "e">>, <<"s", "t", "a", "r", "t", "_", "s", "t", "a", "t", "i", "o", "n", "_", "n", "a", "m", "e">>, <<"B", "i", "k", "e", "I", "D">>, <<"f", "o", "o">> }

\* cells a batch may carry
CellPool == { StrCell(<<"a", "b", "c">>), StrCell(<<"2", "0", "1", "4", "-", "0", "1", "-", "0", "2">>), IntCell(<<"5">>), NA }

RowCounts == {0, 1}

\* the sequences of distinct elements of S, at most n long
DistinctSeqs(S, n) ==
    {s \in UNION {[1..k -> S] : k \in 0..n} :
        \A i \in 1..Len(s) : \A j \in 1..Len(s) : s[i] = s[j] => i = j}

\* the batch of n rows with headers hs, column i holding the cells vs[i]
Batch(n, hs, vs) ==
    [n |-> n, cols |-> [i \in 1..Len(hs) |-> [name |-> hs[i], vals |-> vs[i]]]]

NoResult == Raised("unset")

CombinerIdle ==
    /\ namelist = <<>> /\ chunksize = 1 /\ out0 = [exists |-> FALSE, lines |-> <<>>]
    /\ out = out0 /\ pc = "off" /\ exc = "" /\ first_write = TRUE /\ members = <<>>
    /\ numfiles = 0 /\ mi = 0 /\ opened = <<>>
    /\ f = [df |-> EmptyFrame, bad |-> 0] /\ rd = [enc |-> "", pos |-> 0, yielded |-> 0]
    /\ writes = <<>>

InitN ==
    /\ \E n \in RowCounts : \E hs \in DistinctSeqs(HeaderPool, MaxCols) :
          \E vs \in [1..Len(hs) -> [1..n -> CellPool]] : batch = Batch(n, hs, vs)
    /\ res1 = NoResult
    /\ res2 = NoResult
    /\ npc = "input"
    /\ CombinerIdle

Normalize ==
    /\ npc = "input"
    /\ res1' = normalize_columns(batch)
    /\ npc' = "normalized"
    /\ UNCHANGED <<batch, res2>>
    /\ UNCHANGED cvars

Renormalize ==
    /\ npc = "normalized"
    /\ res1.exc = ""
    /\ res2' = normalize_columns(res1.df)
    /\ npc' = "renormalized"
    /\ UNCHANGED <<batch, res1>>
    /\ UNCHANGED cvars

NextN == Normalize \/ Renormalize

SpecN == InitN /\ [][NextN]_vars

----------------------------------------------------------------------------
(* The archive and the files in it *)

\* entry names an archive may list
EntryNames == { <<"b", ".", "c", "s", "v">>, <<"A", ".", "C", "S", "V">>, <<"s", "/", "c", ".", "c", "s", "v">>, <<"d", ".", "c", "s", "v", "/">> }

Column(name, vals) == [name |-> name, vals |-> vals]

\* what pd.read_csv parses out of a member, all rows together
File_legacy ==
    [n |-> 3, cols |-> <<
        Column(<<"s", "t", "a", "r", "t", "t", "i", "m", "e">>, <<StrCell(<<"2", "0", "1", "4", "-", "0", "1", "-", "0", "2">>), StrCell(<<"a", "b", "c">>), StrCell(<<"2", "0", "1", "4", "-", "0", "1", "-", "0", "2">>)>>),
        Column(<<"t", "r", "i", "p", "d", "u", "r", "a", "t", "i", "o", "n">>, <<IntCell(<<"5">>), IntCell(<<"7">>), IntCell(<<"5">>)>>) >>]

File_modern ==
    [n |-> 1, cols |-> <<
        Column(<<"s", "t", "a", "r", "t", "e", "d", "_", "a", "t">>, <<StrCell(<<"2", "0", "1", "4", "-", "0", "1", "-", "0", "2">>)>>),
        Column(<<"s", "o", "u", "r", "c", "e", "_", "f", "i", "l", "e">>, <<StrCell(<<"a", "b", "c">>)>>) >>]

File_header_only ==
    [n |-> 0, cols |-> << Column(<<"s", "t", "a", "r", "t", "t", "i", "m", "e">>, <<>>), Column(<<"b", "i", "k", "e", "i", "d">>, <<>>) >>]

File_own_source ==
    [n |-> 1, cols |-> <<
        Column(<<"S", "o", "u", "r", "c", "e", "_", "F", "i", "l", "e">>, <<StrCell(<<"a", "b", "c">>)>>),
        Column(<<"s", "t", "o", "p", "t", "i", "m", "e">>, <<StrCell(<<"2", "0", "1", "4", "-", "0", "1", "-", "0", "2">>)>>) >>]

File_two_starts ==
    [n |-> 0, cols |-> << Column(<<"s", "t", "a", "r", "t", "t", "i", "m", "e">>, <<>>), Column(<<"s", "t", "a", "r", "t", "e", "d", "_", "a", "t">>, <<>>) >>]

\* a member of zero bytes: no header line, no columns to parse
File_zero_bytes == [n |-> 0, cols |-> <<>>]

Files ==
    {File_legacy, File_modern, File_header_only, File_own_source, File_two_starts,
     File_zero_bytes}

\* the file at out_csv: absent, or left there by something else
Absent == [exists |-> FALSE, lines |-> <<>>]
StaleLine ==
    [kind |-> "stale", names |-> <<>>, cells |-> <<>>, member |-> <<>>, row |-> 0, enc |-> ""]
Stale == [exists |-> TRUE, lines |-> <<StaleLine>>]

----------------------------------------------------------------------------
(* iter_csv_chunks_with_encoding_fallback *)

Min(a, b) == IF a <= b THEN a ELSE b

\* rows lo+1 .. hi of a parsed file
Rows(df, lo, hi) ==
    [n |-> hi - lo,
     cols |-> [i \in 1..Len(df.cols) |->
                 [df.cols[i] EXCEPT !.vals = SubSeq(@, lo + 1, hi)]]]

\* the last row of the chunk the generator reads next
ChunkEnd == Min(rd.pos + chunksize, f.df.n)

\* line 118: the UTF-8 reader raises UnicodeDecodeError when the rows it reads
\* next hold the member's first undecodable byte (f.bad = 0: there is none)
DecodeFails == rd.enc = "utf-8" /\ f.bad \in (rd.pos + 1)..ChunkEnd

\* lines 118, 125: pd.read_csv raises EmptyDataError on a file without a header
\* line, under either encoding
NoColumns == f.df.cols = <<>>

\* the reader has a chunk to yield: rows are left, or nothing was yielded yet
\* (the first chunk of a file with no data row is an empty frame)
HasChunk_rows_left(n, pos, yielded) == pos < n

HasChunk(n, pos, yielded) == pos < n \/ yielded = 0

----------------------------------------------------------------------------
(* combine_zip_to_csv *)

MemberCap == 2

\* line 140
IsCsvMember(name) == endswith(lower(name), <<".", "c", "s", "v">>) /\ ~endswith(name, <<"/">>)

\* lines 139-140: the generator over z.namelist()
RECURSIVE csv_names(_)
csv_names(names) ==
    IF names = <<>> THEN <<>>
    ELSE (IF IsCsvMember(Head(names)) THEN <<Head(names)>> ELSE <<>>) \o csv_names(Tail(names))

\* lines 138-141
Members(names) == sorted(csv_names(names))

\* line 143: "if not members"
NoMembers_never(ms) == FALSE

NoMembers(ms) == ms = <<>>

\* line 149
CapReached(n) == n > MemberCap

\* line 153: chunk["source_file"] = member
Stamp(df, member) ==
    LET vals == [r \in 1..df.n |-> StrCell(member)]
    IN  IF <<"s", "o", "u", "r", "c", "e", "_", "f", "i", "l", "e">> \in Range(columns(df))
        THEN [df EXCEPT !.cols =
                 [i \in 1..Len(df.cols) |->
                     IF df.cols[i].name = <<"s", "o", "u", "r", "c", "e", "_", "f", "i", "l", "e">>
                     THEN [df.cols[i] EXCEPT !.vals = vals] ELSE df.cols[i]]]
        ELSE [df EXCEPT !.cols = Append(@, Column(<<"s", "o", "u", "r", "c", "e", "_", "f", "i", "l", "e">>, vals))]

\* line 158
to_csv_mode(fw) == IF fw THEN "w" ELSE "a"

\* line 160
to_csv_header_always(fw) == TRUE

to_csv_header(fw) == fw

\* lines 156-161: df.to_csv(out_csv, mode, index=False, header).  A line of
\* the file carries, beside its text (names for the header row, cells for a
\* record), where it came from: the member, the member's row and the
\* encoding of the read attempt; a record also keeps its batch's labels.
to_csv(file, df, mode, header, member, lo, enc) ==
    LET kept == IF mode = "a" /\ file.exists THEN file.lines ELSE <<>>
        head == IF header
                THEN <<[kind |-> "header", names |-> columns(df), cells |-> <<>>,
                        member |-> member, row |-> 0, enc |-> enc]>>
                ELSE <<>>
        recs == [r \in 1..df.n |->
                   [kind |-> "record", names |-> columns(df),
                    cells |-> [i \in 1..Len(df.cols) |-> df.cols[i].vals[r]],
                    member |-> member, row |-> lo + r, enc |-> enc]]
    IN  [exists |-> TRUE, lines |-> kept \o head \o recs]

NormalizerIdle ==
    /\ batch = EmptyFrame /\ res1 = NoResult /\ res2 = NoResult /\ npc = "off"

Init ==
    /\ namelist \in DistinctSeqs(EntryNames, MaxEntries)
    /\ chunksize \in 1..MaxChunk
    /\ out0 \in {Absent, Stale}
    /\ out = out0
    /\ pc = "start"
    /\ exc = ""
    /\ first_write = TRUE
    /\ members = <<>>
    /\ numfiles = 0
    /\ mi = 0
    /\ opened = <<>>
    /\ f = [df |-> EmptyFrame, bad |-> 0]
    /\ rd = [enc |-> "", pos |-> 0, yielded |-> 0]
    /\ writes = <<>>
    /\ NormalizerIdle

\* lines 135-146, the archive has qualifying entries
Begin ==
    /\ pc = "start"
    /\ ~NoMembers(Members(namelist))
    /\ first_write' = TRUE
    /\ members' = Members(namelist)
    /\ numfiles' = 0
    /\ pc' = "loop"
    /\ UNCHANGED <<namelist, chunksize, out0, out, exc, mi, opened, f, rd, writes>>
    /\ UNCHANGED nvars

\* lines 135-144, it has none: RuntimeError
BeginEmpty ==
    /\ pc = "start"
    /\ NoMembers(Members(namelist))
    /\ first_write' = TRUE
    /\ members' = Members(namelist)
    /\ pc' = "failed"
    /\ exc' = "RuntimeError"
    /\ UNCHANGED <<namelist, chunksize, out0, out, numfiles, mi, opened, f, rd, writes>>
    /\ UNCHANGED nvars

\* lines 147-152: the loop takes the next member and opens it; what the member
\* holds is the environment's choice
OpenMember ==
    /\ pc = "loop"
    /\ mi < Len(members)
    /\ ~CapReached(numfiles + 1)
    /\ numfiles' = numfiles + 1
    /\ mi' = mi + 1
    /\ opened' = Append(opened, members[mi + 1])
    /\ \E file \in Files : \E bad \in 0..file.n : f' = [df |-> file, bad |-> bad]
    /\ rd' = [enc |-> "utf-8", pos |-> 0, yielded |-> 0]
    /\ pc' = "reading"
    /\ UNCHANGED <<namelist, chunksize, out0, out, exc, first_write, members, writes>>
    /\ UNCHANGED nvars

\* lines 147-150: the third member ends the loop
BreakAtCap ==
    /\ pc = "loop"
    /\ mi < Len(members)
    /\ CapReached(numfiles + 1)
    /\ numfiles' = numfiles + 1
    /\ mi' = mi + 1
    /\ pc' = "done"
    /\ UNCHANGED <<namelist, chunksize, out0, out, exc, first_write, members, opened, f, rd,
                   writes>>
    /\ UNCHANGED nvars

\* line 147: no member is left
LoopEnd ==
    /\ pc = "loop"
    /\ mi = Len(members)
    /\ pc' = "done"
    /\ UNCHANGED <<namelist, chunksize, out0, out, exc, first_write, members, numfiles, mi,
                   opened, f, rd, writes>>
    /\ UNCHANGED nvars

\* lines 120-125: UnicodeDecodeError in the UTF-8 attempt; the generator seeks
\* to the start and reads the member again as latin-1
Fallback ==
    /\ pc = "reading"
    /\ DecodeFails
    /\ rd' = [enc |-> "latin-1", pos |-> 0, yielded |-> 0]
    /\ UNCHANGED <<namelist, chunksize, out0, out, pc, exc, first_write, members, numfiles,
                   mi, opened, f, writes>>
    /\ UNCHANGED nvars

\* lines 118, 125: pd.read_csv finds no columns; the error is no
\* UnicodeDecodeError and ends the run
ReadRaises ==
    /\ pc = "reading"
    /\ NoColumns
    /\ pc' = "failed"
    /\ exc' = "EmptyDataError"
    /\ UNCHANGED <<namelist, chunksize, out0, out, first_write, members, numfiles, mi, opened,
                   f, rd, writes>>
    /\ UNCHANGED nvars

\* the chunk the generator yields next, stamped and normalized (lines 153-154)
Normalized == normalize_columns(Stamp(Rows(f.df, rd.pos, ChunkEnd), opened[Len(opened)]))

\* lines 152-162: the generator yields a chunk and the loop body writes it
WriteChunk ==
    /\ pc = "reading"
    /\ ~NoColumns
    /\ ~DecodeFails
    /\ HasChunk(f.df.n, rd.pos, rd.yielded)
    /\ LET chunk == Normalized
       IN  /\ chunk.exc = ""
           /\ out' = to_csv(out, chunk.df, to_csv_mode(first_write),
                            to_csv_header(first_write), opened[Len(opened)], rd.pos, rd.enc)
    /\ writes' = Append(writes, [mode |-> to_csv_mode(first_write),
                                 header |-> to_csv_header(first_write),
                                 member |-> opened[Len(opened)],
                                 enc |-> rd.enc, lo |-> rd.pos, hi |-> ChunkEnd])
    /\ first_write' = FALSE
    /\ rd' = [rd EXCEPT !.pos = ChunkEnd, !.yielded = @ + 1]
    /\ UNCHANGED <<namelist, chunksize, out0, pc, exc, members, numfiles, mi, opened, f>>
    /\ UNCHANGED nvars

\* lines 152-154: normalize_columns raises and the run ends with its exception
NormalizeRaises ==
    /\ pc = "reading"
    /\ ~NoColumns
    /\ ~DecodeFails
    /\ HasChunk(f.df.n, rd.pos, rd.yielded)
    /\ Normalized.exc # ""
    /\ pc' = "failed"
    /\ exc' = Normalized.exc
    /\ UNCHANGED <<namelist, chunksize, out0, out, first_write, members, numfiles, mi, opened,
                   f, rd, writes>>
    /\ UNCHANGED nvars

\* line 152: the generator is exhausted; the member is closed
EndMember ==
    /\ pc = "reading"
    /\ ~NoColumns
    /\ ~DecodeFails
    /\ ~HasChunk(f.df.n, rd.pos, rd.yielded)
    /\ pc' = "loop"
    /\ UNCHANGED <<namelist, chunksize, out0, out, exc, first_write, members, numfiles, mi,
                   opened, f, rd, writes>>
    /\ UNCHANGED nvars

Next ==
    \/ Begin
    \/ BeginEmpty
    \/ OpenMember
    \/ BreakAtCap
    \/ LoopEnd
    \/ Fallback
    \/ ReadRaises
    \/ WriteChunk
    \/ NormalizeRaises
    \/ EndMember

Spec == Init /\ [][Next]_vars

----------------------------------------------------------------------------
(* Properties of normalize_columns, under SpecN *)

IsNull(c) == c.k \in {"na", "nat", "nan"}

Normalized1 == npc \in {"normalized", "renormalized"}

\* the canonical name a header of the input ends up under
CanonicalOf(h) == Alias(cleaned(h))

\* the first column of df labelled c
ColumnOf(df, c) == df.cols[CHOOSE i \in 1..Len(df.cols) : df.cols[i].name = c]

\* C1: whatever the input batch, also when two input headers map to the same
\* canonical name, normalize_columns returns a batch whose columns are exactly
\* the 16 names of CANON_ORDER, each once and in that order, in which the
\* canonical columns the input lacks are all-null.
C1_ExactlyCanonOrder ==
    Normalized1 =>
        /\ res1.exc = ""
        /\ columns(res1.df) = CANON_ORDER
        /\ \A j \in 1..Len(CANON_ORDER) :
              (\A i \in 1..Len(batch.cols) : CanonicalOf(batch.cols[i].name) # CANON_ORDER[j])
              => \A r \in 1..batch.n : IsNull(res1.df.cols[j].vals[r])

Unparseable(c, cell) ==
    \/ c \in {<<"s", "t", "a", "r", "t", "e", "d", "_", "a", "t">>, <<"e", "n", "d", "e", "d", "_", "a", "t">>} /\ cell.k = "str" /\ cell.v \notin DateTexts
    \/ c = <<"t", "r", "i", "p", "_", "d", "u", "r", "a", "t", "i", "o", "n", "_", "s", "e", "c">> /\ cell.k = "str" /\ cell.v \notin NumberTexts

\* C8: normalize_columns never raises, whatever the input batch: the call
\* returns, and every unparseable started_at, ended_at or trip_duration_sec
\* value is null in the batch it returns.
C8_CoercionNeverRaises ==
    Normalized1 =>
        /\ res1.exc = ""
        /\ \A i \in 1..Len(batch.cols) : \A r \in 1..batch.n :
              Unparseable(CanonicalOf(batch.cols[i].name), batch.cols[i].vals[r])
              => IsNull(ColumnOf(res1.df, CanonicalOf(batch.cols[i].name)).vals[r])

\* C10: normalize_columns is idempotent: normalizing the batch it returned
\* returns a batch with the same column names, in the same order, holding the
\* same cells.
C10_Idempotent ==
    npc = "renormalized" => (res2.exc = "" /\ res2.df = res1.df)

\* a legacy header was renamed, an unknown one dropped and an unparseable start
\* time made null by the first call, and the second call has returned
C10_Witness ==
    /\ npc = "renormalized"
    /\ batch.n = 1
    /\ columns(batch) = <<<<"s", "t", "a", "r", "t", "t", "i", "m", "e">>, <<"f", "o", "o">>>>
    /\ batch.cols[1].vals[1] = StrCell(<<"a", "b", "c">>)
    /\ res1.df.cols[1].vals[1] = NaT
    /\ <<"f", "o", "o">> \notin Range(columns(res1.df))

----------------------------------------------------------------------------
(* Properties of combine_zip_to_csv, under Spec *)

\* the lines of the output file that are records
Records == {i \in 1..Len(out.lines) : out.lines[i].kind = "record"}

Headers == {i \in 1..Len(out.lines) : out.lines[i].kind = "header"}

\* the member being read
Current == opened[Len(opened)]

\* C2: when the UTF-8 attempt at a member fails, also after it has produced
\* batches, those batches are abandoned: no record of the member in the output
\* comes from another attempt than the one being read, and every row of the
\* member read so far is in the output exactly once.
C2_AbandonedAttemptLeavesNothing ==
    pc = "reading" =>
        /\ \A i \in Records :
              out.lines[i].member = Current => out.lines[i].enc = rd.enc
        /\ \A r \in 1..rd.pos :
              Cardinality({i \in Records :
                  out.lines[i].member = Current /\ out.lines[i].row = r}) = 1

\* C3: the first batch written in a run is written in mode "w" with a header
\* row and every later batch, of the same or a later member, in mode "a"
\* without one; the output then holds exactly one header row, its first line;
\* first_write is true until the first write and never true again.
C3_OneHeaderFirst ==
    /\ [](\A i \in 1..Len(writes) :
            /\ writes[i].mode = (IF i = 1 THEN "w" ELSE "a")
            /\ writes[i].header = (i = 1))
    /\ [](writes # <<>> => Headers = {1})
    /\ [](first_write = (writes = <<>>))
    /\ [][first_write = FALSE => first_write' = FALSE]_vars

\* a run that wrote three batches or more, from two members
C3_Witness ==
    /\ pc = "done"
    /\ Len(writes) >= 3
    /\ writes[1].member # writes[Len(writes)].member
    /\ Len(out.lines) >= 4

\* C4: the members are the entries whose name ends in ".csv" whatever the
\* case and that are no directory, sorted; only the first two are opened, in
\* that order; the records of the first precede those of the second, the
\* records of one member are in source row order, and nothing of a third
\* member is written.
C4_FirstTwoInOrder ==
    /\ pc # "start" =>
          /\ Range(members) = {n \in Range(namelist) :
                                  endswith(lower(n), <<".", "c", "s", "v">>) /\ ~endswith(n, <<"/">>)}
          /\ \A i \in 1..Len(members) : \A j \in 1..Len(members) :
                i < j => StrLess(members[i], members[j])
    /\ Len(opened) <= 2
    /\ opened = SubSeq(members, 1, Len(opened))
    /\ \A i \in Records : out.lines[i].member \in Range(opened)
    /\ \A i \in Records : \A j \in Records :
          i < j =>
             IF out.lines[i].member = out.lines[j].member
             THEN out.lines[i].row < out.lines[j].row
             ELSE StrLess(out.lines[i].member, out.lines[j].member)

\* C5: after a run that returns, every qualifying member of the archive has
\* been read into the output, however many there are.
C5_AllMembersCombined ==
    pc = "done" =>
        \A n \in Range(namelist) :
            (endswith(lower(n), <<".", "c", "s", "v">>) /\ ~endswith(n, <<"/">>)) => n \in Range(opened)

NoQualifyingEntry ==
    \A n \in Range(namelist) : ~(endswith(lower(n), <<".", "c", "s", "v">>) /\ ~endswith(n, <<"/">>))

\* C6: on an archive without qualifying entries the run ends with
\* RuntimeError before any member is opened and without writing: the output
\* path holds what it held before, a file or nothing.
C6_EmptyArchiveFails ==
    (pc # "start" /\ NoQualifyingEntry) =>
        /\ pc = "failed"
        /\ exc = "RuntimeError"
        /\ opened = <<>>
        /\ writes = <<>>
        /\ out = out0

\* the run failed on an archive that lists only a directory, with a file
\* already at the output path
C6_Witness ==
    /\ pc = "failed"
    /\ exc = "RuntimeError"
    /\ namelist = <<<<"d", ".", "c", "s", "v", "/">>>>
    /\ out0 = Stale
    /\ out = Stale

\* C7: every record in the output has source_file equal to the name of the
\* member it was read from, also when the member has a column of its own
\* whose header is or normalizes to source_file.
C7_SourceFileIsMember ==
    \A i \in Records :
        \A j \in 1..Len(out.lines[i].names) :
            out.lines[i].names[j] = <<"s", "o", "u", "r", "c", "e", "_", "f", "i", "l", "e">>
            => out.lines[i].cells[j] = StrCell(out.lines[i].member)

RECURSIVE RowsWritten(_)
RowsWritten(ws) ==
    IF ws = <<>> THEN 0 ELSE (Head(ws).hi - Head(ws).lo) + RowsWritten(Tail(ws))

\* C9: after a run that returns, the output file exists and holds only what
\* the run wrote, one header row and then the records of its batches,
\* whatever was at the path before and also when no batch had a row.
C9_StaleOutputReplaced ==
    pc = "done" =>
        /\ out.exists
        /\ Headers = {1}
        /\ Records = 2..Len(out.lines)
        /\ Len(out.lines) = 1 + RowsWritten(writes)
        /\ \A i \in Records : out.lines[i].member \in Range(opened)

\* a run over header-only members returned, with a file already at the path
C9_Witness ==
    /\ pc = "done"
    /\ out0 = Stale
    /\ opened # <<>>
    /\ RowsWritten(writes) = 0
    /\ Len(out.lines) = 1
    /\ out.lines[1].kind = "header"

====
